---- MODULE Spec2Model ----
(***************************************************************************)
(* Model of streamlit_app.py: one Streamlit script that loads a monthly     *)
(* sea-level table (cached per process), aggregates it per year, fits a     *)
(* trend, and renders a 10-item checklist with tiered feedback.  Every      *)
(* user interaction re-executes the whole script; each such run is one      *)
(* action of the model.                                                     *)
(*                                                                          *)
(* Dates are month indices (year * 12 + month - 1).  Measurements are       *)
(* integers in units of 1/119 mm, so that the ramp linspace(0, 80, 120) is  *)
(* exact; a yearly mean is kept as the exact pair (sum, count).             *)
(***************************************************************************)
EXTENDS Integers, Sequences, FiniteSets, TLC

\* ------------------------------------------------------------------------
\* Program constants
\* ------------------------------------------------------------------------
NumMissions == 10
SynthPeriods == 120
SynthStartYear == 2000
RampTop == 80
DefaultStartFloor == 1990
MinWindow == 1
MaxWindow == 10
DefaultWindow == 5
ExcellentPercent == 80
GoodPercent == 60
MantissaBits == 53

\* ------------------------------------------------------------------------
\* Bounds of the model
\* ------------------------------------------------------------------------
NumSeeds == 2          \* distinct entropy seeds a process may start with
MaxRows == 2           \* rows of a live CSV body
MaxTicks == 1          \* months the clock may advance during a process

\* pandas' NaT and NaN, and "not computed" for an integer
NaT == 0 - 1
NaN == 0 - 1000000
None == 0 - 1

\* ------------------------------------------------------------------------
\* IEEE-754 binary64 arithmetic.  A natural number is a sequence of limbs,
\* least significant first, in base 2^24; a non-negative double is
\* [m |-> limbs, e |-> exponent of the unit of m], m of at most 53 bits.
\* ------------------------------------------------------------------------
LimbBits == 24
Base == 2 ^ LimbBits

Limb(N, i) == IF i >= 1 /\ i <= Len(N) THEN N[i] ELSE 0

RECURSIVE Trim(_)
Trim(N) ==
    IF N = <<>> THEN <<>>
    ELSE IF N[Len(N)] = 0 THEN Trim(SubSeq(N, 1, Len(N) - 1)) ELSE N

RECURSIVE SmallBitLen(_)
SmallBitLen(n) == IF n = 0 THEN 0 ELSE 1 + SmallBitLen(n \div 2)

BigBitLen(N) ==
    LET T == Trim(N)
    IN  IF T = <<>> THEN 0
        ELSE LimbBits * (Len(T) - 1) + SmallBitLen(T[Len(T)])

\* bit i (0 = least significant) of N
BigBit(N, i) == (Limb(N, (i \div LimbBits) + 1) \div (2 ^ (i % LimbBits))) % 2

\* N mod 2^s # 0
BigLowNonZero(N, s) ==
    \/ \E i \in 1..(s \div LimbBits) : Limb(N, i) # 0
    \/ Limb(N, (s \div LimbBits) + 1) % (2 ^ (s % LimbBits)) # 0

\* N div 2^s
BigShr(N, s) ==
    LET a == s \div LimbBits
        b == s % LimbBits
    IN  Trim([i \in 1..(IF Len(N) > a THEN Len(N) - a ELSE 0) |->
                (Limb(N, i + a) \div (2 ^ b))
                + (Limb(N, i + a + 1) % (2 ^ b)) * (2 ^ (LimbBits - b))])

RECURSIVE BigInc(_)
BigInc(N) ==
    IF N = <<>> THEN <<1>>
    ELSE IF N[1] + 1 < Base THEN <<N[1] + 1>> \o Tail(N)
    ELSE <<0>> \o BigInc(Tail(N))

\* N * c + carry for a small c
RECURSIVE BigMulSmall(_, _, _)
BigMulSmall(N, c, carry) ==
    IF N = <<>> THEN (IF carry = 0 THEN <<>> ELSE <<carry>>)
    ELSE LET t == N[1] * c + carry
         IN  <<t % Base>> \o BigMulSmall(Tail(N), c, t \div Base)

\* the limbs, most significant first, of floor(r * Base^steps / n), r < n
RECURSIVE DivLimbs(_, _, _)
DivLimbs(r, n, steps) ==
    IF steps = 0 THEN <<>>
    ELSE <<(r * Base) \div n>> \o DivLimbs((r * Base) % n, n, steps - 1)

RECURSIVE DivRem(_, _, _)
DivRem(r, n, steps) ==
    IF steps = 0 THEN r ELSE DivRem((r * Base) % n, n, steps - 1)

Reverse(s) == [i \in 1..Len(s) |-> s[Len(s) + 1 - i]]

\* round-to-nearest, ties-to-even, of N * 2^e (plus a sticky tail) to p bits
RoundBits(N, e, sticky, p) ==
    LET L == BigBitLen(N)
    IN  IF L <= p THEN [m |-> Trim(N), e |-> e]
        ELSE LET s    == L - p
                 keep == BigShr(N, s)
                 rnd  == BigBit(N, s - 1)
                 st   == sticky \/ BigLowNonZero(N, s - 1)
                 up   == rnd = 1 /\ (st \/ keep[1] % 2 = 1)
                 k2   == IF up THEN BigInc(keep) ELSE keep
             IN  IF BigBitLen(k2) > p
                 THEN [m |-> BigShr(k2, 1), e |-> e + s + 1]
                 ELSE [m |-> k2, e |-> e + s]

GuardLimbs == 3

\* Python's int / int for 0 <= k <= n : the correctly rounded quotient
FloatDiv(k, n) ==
    RoundBits(Reverse(<<k \div n>> \o DivLimbs(k % n, n, GuardLimbs)),
              0 - GuardLimbs * LimbBits,
              DivRem(k % n, n, GuardLimbs) # 0,
              MantissaBits)

\* float * c for a small integer c, which is exactly representable
FloatMulNat(x, c) == RoundBits(BigMulSmall(x.m, c, 0), x.e, FALSE, MantissaBits)

\* Python's int(float): truncation towards zero (the result fits one limb)
FloatToInt(x) ==
    IF x.e >= 0 THEN Limb(x.m, 1) * (2 ^ x.e)
    ELSE Limb(BigShr(x.m, 0 - x.e), 1)

\* ------------------------------------------------------------------------
\* Exact rationals [n, d] in lowest terms, d > 0 (pandas' float results
\* taken as the reals they approximate)
\* ------------------------------------------------------------------------
Abs(n) == IF n < 0 THEN 0 - n ELSE n

RECURSIVE GCD(_, _)
GCD(a, b) == IF b = 0 THEN a ELSE GCD(b, a % b)

Frac(n, d) ==
    LET g == GCD(Abs(n), d)
    IN  [n |-> n \div g, d |-> d \div g]

LCM(a, b) == (a \div GCD(a, b)) * b

Range(s) == {s[i] : i \in 1..Len(s)}

RECURSIVE SumSeq(_, _)
SumSeq(s, n) == IF n = 0 THEN 0 ELSE s[n] + SumSeq(s, n - 1)

RECURSIVE LcmSeq(_, _)
LcmSeq(s, n) == IF n = 0 THEN 1 ELSE LCM(s[n], LcmSeq(s, n - 1))

SetMin(S) == CHOOSE m \in S : \A k \in S : m <= k
SetMax(S) == CHOOSE m \in S : \A k \in S : m >= k

\* the elements of a set of integers in ascending order
RECURSIVE SortedSeq(_)
SortedSeq(S) ==
    IF S = {} THEN <<>>
    ELSE LET m == SetMin(S) IN <<m>> \o SortedSeq(S \ {m})

\* ------------------------------------------------------------------------
\* The HTTP response and the CSV body
\* ------------------------------------------------------------------------
YearMonth(y, m) == y * 12 + (m - 1)
YearOf(date) == date \div 12

\* datetime.today(): the clock when a process starts
StartClock == YearMonth(2024, 6)

NullCell == [k |-> "null"]
TextCell == [k |-> "text"]
DateCell(d) == [k |-> "date", d |-> d]
NumCell(v) == [k |-> "num", v |-> v]

\* cells of a time-like column: empty, unparseable, three past months in two
\* years with a gap year between them, and a month after the process ends
TimeCells ==
    {NullCell, TextCell,
     DateCell(YearMonth(2020, 1)), DateCell(YearMonth(2020, 4)),
     DateCell(YearMonth(2022, 6)),
     DateCell(StartClock + MaxTicks + 1)}

\* cells of a numeric column
ValueCells == {NullCell, NumCell(119), NumCell(357)}

FillerCell == NumCell(1)

TimeNames == {"Time", "date", "month"}
ValueNames == {"GMSL", "value", "level"}

Headers ==
    { <<"Time", "GMSL", "GMSL uncertainty">>,
      <<"GMSL", "Time">>,
      <<"date", "value">>,
      <<"month", "level">>,
      <<"level">>,
      <<"date">> }

RowOf(cols, t, v) ==
    [i \in 1..Len(cols) |->
        IF cols[i] \in TimeNames THEN t
        ELSE IF cols[i] \in ValueNames THEN v
        ELSE FillerCell]

RECURSIVE SeqsUpTo(_, _)
SeqsUpTo(S, n) ==
    IF n = 0 THEN {<<>>}
    ELSE LET shorter == SeqsUpTo(S, n - 1)
         IN  shorter \cup {Append(q, e) : q \in shorter, e \in S}

Bodies ==
    { [columns |-> h,
       rows |-> [i \in 1..Len(cells) |-> RowOf(h, cells[i][1], cells[i][2])]] :
      h \in Headers, cells \in SeqsUpTo(TimeCells \X ValueCells, MaxRows) }

\* what requests.get / raise_for_status / read_csv can come back with
Responses ==
    { [kind |-> "network_error"], [kind |-> "http_error"],
      [kind |-> "malformed_body"] }
    \cup { [kind |-> "csv", body |-> b] : b \in Bodies }

\* ------------------------------------------------------------------------
\* load_noaa_data: lines 37-69
\* ------------------------------------------------------------------------
\* lines 46-54: the column names after the three-tier resolution
RenameColumns(cols) ==
    IF "Time" \in Range(cols) /\ "GMSL" \in Range(cols)
    THEN [i \in 1..Len(cols) |->
            IF cols[i] = "Time" THEN "date"
            ELSE IF cols[i] = "GMSL" THEN "value" ELSE cols[i]]
    ELSE IF "date" \in Range(cols) /\ "value" \in Range(cols)
    THEN cols
    ELSE IF Len(cols) >= 2
    THEN [i \in 1..Len(cols) |->
            IF i = 1 THEN "date" ELSE IF i = 2 THEN "value" ELSE cols[i]]
    ELSE cols

ResolutionTier(cols) ==
    IF "Time" \in Range(cols) /\ "GMSL" \in Range(cols) THEN "named_Time_GMSL"
    ELSE IF "date" \in Range(cols) /\ "value" \in Range(cols)
    THEN "named_date_value"
    ELSE IF Len(cols) >= 2 THEN "positional"
    ELSE "too_few_columns"

ColIndex(cols, name) == CHOOSE i \in 1..Len(cols) : cols[i] = name

\* line 56: pd.to_datetime(..., errors="coerce")
ToDatetime(cell) == IF cell.k = "date" THEN cell.d ELSE NaT

\* line 43: read_csv leaves an empty field of a numeric column as NaN
ValueOf(cell) == IF cell.k = "num" THEN cell.v ELSE NaN

\* the same without the future-date filter of line 58
KeepRowNoFutureFilter(date, value, clock) ==
    /\ date # NaT
    /\ value # NaN

\* line 57-58: dropna(subset=["date", "value"]) and the future-date filter
KeepRow(date, value, clock) ==
    /\ date # NaT
    /\ value # NaN
    /\ date <= clock

\* lines 56-60 on a body whose columns include date and value
Normalize(cols, rows, clock) ==
    LET di   == ColIndex(cols, "date")
        vi   == ColIndex(cols, "value")
        kept == SelectSeq(rows,
                    LAMBDA r : KeepRow(ToDatetime(r[di]), ValueOf(r[vi]), clock))
    IN  [i \in 1..Len(kept) |->
            [date  |-> ToDatetime(kept[i][di]),
             value |-> ValueOf(kept[i][vi]),
             year  |-> YearOf(ToDatetime(kept[i][di]))]]

\* np.random.normal(scale=1.5, size=120) of a process whose generator was
\* seeded with s: element i, in units of 1/119 mm
Noise(s, i) == (((7 * s + 3 * i + s * i) % 9) - 4) * 45

\* the fallback with periods counted from zero: one row short
SyntheticTableShort(s) ==
    [i \in 1..(SynthPeriods - 1) |->
        [date  |-> YearMonth(SynthStartYear, 1) + (i - 1),
         value |-> RampTop * (i - 1) + Noise(s, i - 1),
         year  |-> YearOf(YearMonth(SynthStartYear, 1) + (i - 1))]]

\* lines 63-69
SyntheticTable(s) ==
    [i \in 1..SynthPeriods |->
        [date  |-> YearMonth(SynthStartYear, 1) + (i - 1),
         value |-> RampTop * (i - 1) + Noise(s, i - 1),
         year  |-> YearOf(YearMonth(SynthStartYear, 1) + (i - 1))]]

\* lines 40-60: TRUE iff the try block runs to its return
TrySucceeds(resp) ==
    /\ resp.kind = "csv"
    /\ "date" \in Range(RenameColumns(resp.body.columns))
    /\ "value" \in Range(RenameColumns(resp.body.columns))

\* the body of load_noaa_data (what st.cache_data wraps)
LoadBody(resp, s, clock) ==
    IF TrySucceeds(resp)
    THEN [df   |-> Normalize(RenameColumns(resp.body.columns),
                             resp.body.rows, clock),
          path |-> ResolutionTier(resp.body.columns)]
    ELSE [df   |-> SyntheticTable(s),
          path |-> IF resp.kind = "csv" THEN "too_few_columns"
                   ELSE IF resp.kind = "network_error" THEN "except_network"
                   ELSE IF resp.kind = "http_error" THEN "except_http_status"
                   ELSE "except_malformed_body"]

\* ------------------------------------------------------------------------
\* Yearly aggregation, moving average and trend: lines 91-104
\* ------------------------------------------------------------------------
\* the filter with the upper end excluded
FilterYearsExclusive(df, lo, hi) ==
    SelectSeq(df, LAMBDA r : r.year >= lo /\ r.year < hi)

\* line 91
FilterYears(df, lo, hi) ==
    SelectSeq(df, LAMBDA r : r.year >= lo /\ r.year <= hi)

GroupValues(df, y) ==
    LET g == SelectSeq(df, LAMBDA r : r.year = y)
    IN  [i \in 1..Len(g) |-> g[i].value]

\* lines 92-93: one row per year, sorted by year
Aggregate(df) ==
    LET years == SortedSeq({df[i].year : i \in 1..Len(df)})
    IN  [j \in 1..Len(years) |->
            LET vals == GroupValues(df, years[j])
            IN  [year |-> years[j],
                 sum  |-> SumSeq(vals, Len(vals)),
                 cnt  |-> Len(vals),
                 avg  |-> Frac(SumSeq(vals, Len(vals)), Len(vals)),
                 min  |-> SetMin(Range(vals)),
                 max  |-> SetMax(Range(vals))]]

\* the yearly means over their common denominator q: avg[j] = Numer[j] / q
CommonDen(yearly) == LcmSeq([j \in 1..Len(yearly) |-> yearly[j].avg.d], Len(yearly))

Numer(yearly, q) ==
    [j \in 1..Len(yearly) |-> yearly[j].avg.n * (q \div yearly[j].avg.d)]

\* line 96: rolling(window, min_periods=1).mean()
MovingAvg(yearly, w) ==
    LET q == CommonDen(yearly)
        Y == Numer(yearly, q)
    IN  [j \in 1..Len(yearly) |->
            LET first == IF j - w + 1 > 1 THEN j - w + 1 ELSE 1
                win   == SubSeq(Y, first, j)
            IN  Frac(SumSeq(win, Len(win)), q * Len(win))]

\* lines 99-102: np.polyfit(year, avg, 1) and its evaluation at each year.
\* The least-squares line is computed with the years counted from the first
\* one, which leaves slope and fitted values unchanged.
PolyFit(yearly) ==
    LET n   == Len(yearly)
        q   == CommonDen(yearly)
        Y   == Numer(yearly, q)
        X   == [j \in 1..n |-> yearly[j].year - yearly[1].year]
        Sx  == SumSeq(X, n)
        Sy  == SumSeq(Y, n)
        Sxx == SumSeq([j \in 1..n |-> X[j] * X[j]], n)
        Sxy == SumSeq([j \in 1..n |-> X[j] * Y[j]], n)
        D   == n * Sxx - Sx * Sx
    IN  [slope   |-> Frac(n * Sxy - Sx * Sy, q * D),
         fitted  |-> [j \in 1..n |->
                        Frac((Sy * Sxx - Sx * Sxy) + (n * Sxy - Sx * Sy) * X[j],
                             q * D)]]

\* ------------------------------------------------------------------------
\* Checklist: lines 167-192
\* ------------------------------------------------------------------------
Missions == 1..NumMissions

RECURSIVE SumFlags(_, _)
SumFlags(flags, n) ==
    IF n = 0 THEN 0
    ELSE SumFlags(flags, n - 1) + (IF flags[n] THEN 1 ELSE 0)

Completed(flags) == SumFlags(flags, Len(flags))

\* the percentage with the division done on integers
ProgressPercentIntDiv(completed) == (completed \div NumMissions) * 100

\* lines 176-177
ProgressPercent(completed) ==
    FloatToInt(FloatMulNat(FloatDiv(completed, NumMissions), 100))

AllFalse == [i \in Missions |-> FALSE]

\* st.checkbox(mission) without value=: unchecked unless just clicked
CheckboxNoValue(v, clicked) == clicked

\* st.checkbox(mission, value=v): the value shown, flipped if the user
\* clicked this box to trigger the run
Checkbox(v, clicked) == IF clicked THEN ~v ELSE v

\* lines 167-173
RenderChecklist(flags, clicked) ==
    LET start == IF flags = <<>> THEN AllFalse ELSE flags
    IN  [i \in Missions |-> Checkbox(start[i], i = clicked)]

\* ------------------------------------------------------------------------
\* State
\* ------------------------------------------------------------------------
VARIABLES
    seed,             \* entropy the process seeded numpy's generator with
    now,              \* the clock, a month index
    cache,            \* st.cache_data entries of load_noaa_data: {} or {df}
    loadPath,         \* the branch of load_noaa_data that filled the cache
    httpGets,         \* requests.get calls made by this process
    checked,          \* st.session_state.checked, <<>> when absent
    year_range,       \* value of the year slider, <<>> before it is shown
    window,           \* value of the window slider
    show_trend,       \* value of the trend checkbox
    status,           \* how the last script run ended
    df_yearly,        \* df_yearly at the end of the last run
    rendered,         \* elements the last run put on the page
    progress_percent, \* progress_percent of the last run, or None
    prev              \* what the previous process last showed: {} or {r}

vars == <<seed, now, cache, loadPath, httpGets, checked, year_range, window,
          show_trend, status, df_yearly, rendered, progress_percent, prev>>

Seeds == 1..NumSeeds

\* the slider positions and windows the user picks from
MaxYearPick == 2
MaxWindowPick == 1

YearPicks(min_year, max_year) ==
    {y \in min_year..max_year : y < min_year + MaxYearPick \/ y = max_year}

WindowPicks ==
    {w \in MinWindow..MaxWindow : w <= MaxWindowPick \/ w = DefaultWindow}

\* ------------------------------------------------------------------------
\* One execution of the script: lines 71-192
\* ------------------------------------------------------------------------
\* load_noaa_data without @st.cache_data: the body runs in every run
LoadUncached(resp) ==
    LoadBody(resp, seed, now) @@ [gets |-> httpGets + 1]

\* line 71 under @st.cache_data: the body runs only on a cache miss
Load(resp) ==
    IF cache = {}
    THEN LoadBody(resp, seed, now) @@ [gets |-> httpGets + 1]
    ELSE [df |-> CHOOSE df \in cache : TRUE, path |-> loadPath,
          gets |-> httpGets]

\* lines 91-104
Yearly(df_monthly, yr, w) ==
    LET agg == Aggregate(FilterYears(df_monthly, yr[1], yr[2]))
        ma  == MovingAvg(agg, w)
        fit == PolyFit(agg)
    IN  [j \in 1..Len(agg) |->
            [year       |-> agg[j].year,
             avg        |-> agg[j].avg,
             min        |-> agg[j].min,
             max        |-> agg[j].max,
             moving_avg |-> ma[j],
             trend      |-> IF Len(agg) >= 2 THEN fit.fitted[j]
                            ELSE agg[j].avg]]

\* lines 99-101: slope is bound only when the fit is made
SlopeBound(yearly) == Len(yearly) >= 2

\* lines 184-192
Feedback(percent) ==
    IF percent = 0 THEN "warning"
    ELSE IF percent >= ExcellentPercent THEN "success"
    ELSE IF percent >= GoodPercent THEN "info_good"
    ELSE "info_start"

FeedbackElements(percent) ==
    IF percent # 0 /\ percent >= ExcellentPercent
    THEN {"balloons", Feedback(percent)}
    ELSE {Feedback(percent)}

\* The script from top to bottom.  yrPick, wPick, stPick are the widget
\* values the browser sends (<<>>: the slider was never shown), clicked is
\* the mission checkbox the user clicked (0: none).
Script(resp, yrPick, wPick, stPick, clicked) ==
    LET L == Load(resp)
        df_monthly == L.df
    IN  /\ cache' = {df_monthly}
        /\ loadPath' = L.path
        /\ httpGets' = L.gets
        /\ window' = wPick
        /\ show_trend' = stPick
        /\ IF Len(df_monthly) = 0
           THEN \* line 78: int(NaN) raises ValueError
                /\ status' = "ValueError"
                /\ rendered' = {}
                /\ df_yearly' = <<>>
                /\ progress_percent' = None
                /\ UNCHANGED <<year_range, checked>>
           ELSE LET min_year == SetMin({df_monthly[i].year : i \in 1..Len(df_monthly)})
                    max_year == SetMax({df_monthly[i].year : i \in 1..Len(df_monthly)})
                    default_start == IF min_year > DefaultStartFloor
                                     THEN min_year ELSE DefaultStartFloor
                    yr == IF yrPick = <<>> THEN <<default_start, max_year>>
                          ELSE yrPick
                    yearly == Yearly(df_monthly, yr, wPick)
                IN  /\ year_range' = yr
                    /\ df_yearly' = yearly
                    /\ IF stPick /\ ~SlopeBound(yearly)
                       THEN \* line 135: slope is not defined, NameError
                            /\ status' = "NameError"
                            /\ rendered' = {"sidebar"}
                            /\ progress_percent' = None
                            /\ UNCHANGED checked
                       ELSE LET flags == RenderChecklist(checked, clicked)
                                percent == ProgressPercent(Completed(flags))
                            IN  /\ status' = "ok"
                                /\ checked' = flags
                                /\ progress_percent' = percent
                                /\ rendered' =
                                     {"sidebar", "chart", "moving_avg_trace",
                                      "download_button", "checklist", "progress"}
                                     \cup (IF stPick THEN {"trend_trace"} ELSE {})
                                     \cup FeedbackElements(percent)

ResponsesNow == IF cache = {} THEN Responses ELSE {[kind |-> "not_requested"]}

Init ==
    /\ seed \in Seeds
    /\ now = StartClock
    /\ cache = {}
    /\ loadPath = "none"
    /\ httpGets = 0
    /\ checked = <<>>
    /\ year_range = <<>>
    /\ window = DefaultWindow
    /\ show_trend = TRUE
    /\ status = "not_run"
    /\ df_yearly = <<>>
    /\ rendered = {}
    /\ progress_percent = None
    /\ prev = {}

\* the browser opens the page
FirstRun ==
    /\ status = "not_run"
    /\ \E resp \in ResponsesNow :
          Script(resp, year_range, window, show_trend, 0)
    /\ UNCHANGED <<seed, now, prev>>

\* the user moves the year slider
ChangeYearRange ==
    /\ "sidebar" \in rendered
    /\ LET df_monthly == CHOOSE df \in cache : TRUE
           min_year == SetMin({df_monthly[i].year : i \in 1..Len(df_monthly)})
           max_year == SetMax({df_monthly[i].year : i \in 1..Len(df_monthly)})
       IN  \E lo \in YearPicks(min_year, max_year) :
           \E hi \in YearPicks(min_year, max_year) :
              /\ lo <= hi
              /\ <<lo, hi>> # year_range
              /\ \E resp \in ResponsesNow :
                    Script(resp, <<lo, hi>>, window, show_trend, 0)
    /\ UNCHANGED <<seed, now, prev>>

\* the user moves the window slider
ChangeWindow ==
    /\ "sidebar" \in rendered
    /\ \E w \in WindowPicks \ {window} :
       \E resp \in ResponsesNow :
          Script(resp, year_range, w, show_trend, 0)
    /\ UNCHANGED <<seed, now, prev>>

\* the user flips the trend checkbox
ChangeShowTrend ==
    /\ "sidebar" \in rendered
    /\ \E resp \in ResponsesNow :
          Script(resp, year_range, window, ~show_trend, 0)
    /\ UNCHANGED <<seed, now, prev>>

\* the user clicks mission checkbox i
ToggleMission(i) ==
    /\ "checklist" \in rendered
    /\ \E resp \in ResponsesNow :
          Script(resp, year_range, window, show_trend, i)
    /\ UNCHANGED <<seed, now, prev>>

\* a month passes
Tick ==
    /\ now < StartClock + MaxTicks
    /\ now' = now + 1
    /\ UNCHANGED <<seed, cache, loadPath, httpGets, checked, year_range,
                   window, show_trend, status, df_yearly, rendered,
                   progress_percent, prev>>

\* the server process is stopped and started again; the page it last showed
\* is remembered for comparison with the new process
Restart ==
    /\ prev = {}
    /\ status = "ok"
    /\ prev' = {[path |-> loadPath, year_range |-> year_range,
                 window |-> window, df_yearly |-> df_yearly]}
    /\ seed' \in Seeds
    /\ cache' = {}
    /\ loadPath' = "none"
    /\ httpGets' = 0
    /\ checked' = <<>>
    /\ year_range' = <<>>
    /\ window' = DefaultWindow
    /\ show_trend' = TRUE
    /\ status' = "not_run"
    /\ df_yearly' = <<>>
    /\ rendered' = {}
    /\ progress_percent' = None
    /\ UNCHANGED now

Next ==
    \/ FirstRun
    \/ ChangeYearRange
    \/ ChangeWindow
    \/ ChangeShowTrend
    \/ \E i \in Missions : ToggleMission(i)
    \/ Tick
    \/ Restart

\* every behaviour of the program
Spec == Init /\ [][Next]_vars

\* a session that uses the analytics widgets only
NextPipeline ==
    \/ FirstRun
    \/ ChangeYearRange
    \/ ChangeWindow
    \/ ChangeShowTrend
    \/ Tick

SpecPipeline == Init /\ [][NextPipeline]_vars

\* two processes in a row, each showing the page once
NextRestart ==
    \/ FirstRun
    \/ Restart

SpecRestart == Init /\ [][NextRestart]_vars

\* a later session of a process whose cache an earlier session filled from a
\* live response with one row in 2020 and one in 2022
WarmResponse ==
    [kind |-> "csv",
     body |-> [columns |-> <<"Time", "GMSL", "GMSL uncertainty">>,
               rows |-> << RowOf(<<"Time", "GMSL", "GMSL uncertainty">>,
                                 DateCell(YearMonth(2020, 1)), NumCell(119)),
                           RowOf(<<"Time", "GMSL", "GMSL uncertainty">>,
                                 DateCell(YearMonth(2022, 6)), NumCell(357)) >>]]

InitWarm ==
    /\ seed = 1
    /\ now = StartClock
    /\ cache = {LoadBody(WarmResponse, 1, StartClock).df}
    /\ loadPath = LoadBody(WarmResponse, 1, StartClock).path
    /\ httpGets = 1
    /\ checked = <<>>
    /\ year_range = <<>>
    /\ window = DefaultWindow
    /\ show_trend = TRUE
    /\ status = "not_run"
    /\ df_yearly = <<>>
    /\ rendered = {}
    /\ progress_percent = None
    /\ prev = {}

NextSession ==
    \/ FirstRun
    \/ ChangeYearRange
    \/ ChangeWindow
    \/ ChangeShowTrend
    \/ \E i \in Missions : ToggleMission(i)

SpecSession == InitWarm /\ [][NextSession]_vars

\* ------------------------------------------------------------------------
\* The aggregation on its own: lines 91-104 applied to a cached series
\* ------------------------------------------------------------------------
MaxSeriesLen == 3

AggDates == {YearMonth(2020, 1), YearMonth(2020, 5), YearMonth(2022, 3)}
AggValues == {0 - 3, 4}
AggYears == 2019..2023

AggSeries ==
    SeqsUpTo({[date |-> d, value |-> v, year |-> YearOf(d)] :
                 d \in AggDates, v \in AggValues}, MaxSeriesLen)

InitAgg ==
    /\ seed = 1
    /\ now = StartClock
    /\ cache \in {{df} : df \in AggSeries}
    /\ loadPath = "named_date_value"
    /\ httpGets = 1
    /\ checked = <<>>
    /\ year_range = <<>>
    /\ window = DefaultWindow
    /\ show_trend = TRUE
    /\ status = "not_run"
    /\ df_yearly = <<>>
    /\ rendered = {}
    /\ progress_percent = None
    /\ prev = {}

Aggregation ==
    /\ status = "not_run"
    /\ \E lo \in AggYears, hi \in AggYears, w \in WindowPicks :
          /\ lo <= hi
          /\ year_range' = <<lo, hi>>
          /\ window' = w
          /\ df_yearly' = Yearly(CHOOSE df \in cache : TRUE, <<lo, hi>>, w)
    /\ status' = "aggregated"
    /\ UNCHANGED <<seed, now, cache, loadPath, httpGets, checked, show_trend,
                   rendered, progress_percent, prev>>

SpecAgg == InitAgg /\ [][Aggregation]_vars

\* ------------------------------------------------------------------------
\* Properties
\* ------------------------------------------------------------------------
FetchFailurePaths ==
    {"except_network", "except_http_status", "except_malformed_body"}

Done(flags) == Cardinality({i \in DOMAIN flags : flags[i]})

FlagsOf(c) == IF c = <<>> THEN AllFalse ELSE c

FeedbackShown == rendered \cap {"warning", "info_start", "info_good", "success"}

\* C1: a run whose year range leaves 0 or 1 yearly rows completes, with
\* trend = avg and with the chart, the trend trace (when asked for) and the
\* CSV export produced.
C1_DegenerateRunCompletes ==
    (status \in {"ok", "NameError"} /\ Len(df_yearly) <= 1) =>
        /\ status = "ok"
        /\ \A j \in 1..Len(df_yearly) : df_yearly[j].trend = df_yearly[j].avg
        /\ {"chart", "download_button"} \subseteq rendered
        /\ show_trend => "trend_trace" \in rendered

\* C2: when the fetched table resolves to fewer than two usable columns,
\* load_noaa_data signals a schema error and returns no series.
C2_SchemaErrorSignalled ==
    loadPath = "too_few_columns" => (cache = {} /\ status = "SchemaError")

\* C3: the balloons fire in a run exactly when that run takes the completion
\* ratio from below 0.8 to at least 0.8.
C3_BalloonsOncePerCrossing ==
    [][ ("balloons" \in rendered') <=>
            /\ Done(FlagsOf(checked)) * 10 < 8 * NumMissions
            /\ Done(FlagsOf(checked')) * 10 >= 8 * NumMissions ]_vars

\* C4: a process makes at most one HTTP GET, also when it failed, and once
\* the table is cached every later run uses that same table.
C4_SingleFetch ==
    [][ /\ httpGets' <= 1
        /\ cache # {} => (cache' = cache /\ httpGets' = httpGets) ]_vars

C4_Witness ==
    /\ httpGets = 1
    /\ loadPath = "except_network"
    /\ status = "ok"
    /\ ~show_trend
    /\ window # DefaultWindow

\* C5: after a failed fetch load_noaa_data has returned a table of exactly
\* 120 monthly rows from 2000-01 on, each with a date, a number and a year.
C5_FallbackOnFetchFailure ==
    loadPath \in FetchFailurePaths =>
        /\ cache # {}
        /\ \A df \in cache :
              /\ Len(df) = 120
              /\ \A i \in 1..Len(df) :
                    /\ df[i].date = 2000 * 12 + (i - 1)
                    /\ df[i].value \in Int
                    /\ df[i].value # NaN
                    /\ df[i].year = 2000 + ((i - 1) \div 12)

C5_Witness ==
    /\ loadPath = "except_http_status"
    /\ status = "ok"
    /\ Len(df_yearly) = 10

\* C6: two executions that both fell back to the synthetic table and use the
\* same year range and window show the same yearly table.
C6_SyntheticDeterministic ==
    \A p \in prev :
        ( /\ p.path \in FetchFailurePaths
          /\ loadPath \in FetchFailurePaths
          /\ status = "ok"
          /\ p.year_range = year_range
          /\ p.window = window ) => df_yearly = p.df_yearly

\* C7: with k of the 10 missions checked the page shows 10*k percent and
\* exactly one feedback tier: none for k = 0, starting below 0.6, good from
\* 0.6 and below 0.8, excellent from 0.8.
C7_ProgressAndTier ==
    status = "ok" =>
        LET k == Done(checked)
        IN  /\ progress_percent = 10 * k
            /\ progress_percent \in 0..100
            /\ FeedbackShown =
                  IF k = 0 THEN {"warning"}
                  ELSE IF k * 10 < 6 * NumMissions THEN {"info_start"}
                  ELSE IF k * 10 < 8 * NumMissions THEN {"info_good"}
                  ELSE {"success"}

C7_Witness ==
    /\ status = "ok"
    /\ Done(checked) = 6
    /\ "info_good" \in rendered
    /\ progress_percent = 60

C9_NormalizedRows ==
    \A df \in cache :
        \A i \in 1..Len(df) :
            /\ df[i].date # NaT
            /\ df[i].value # NaN
            /\ df[i].date <= now
            /\ df[i].year * 12 <= df[i].date
            /\ df[i].date < (df[i].year + 1) * 12

C9_Witness ==
    /\ loadPath = "positional"
    /\ \E df \in cache : Len(df) = MaxRows
    /\ now > StartClock
    /\ status = "ok"

\* C10: the flags start all false, and a flag changes only in a run that
\* changes no analytics widget and no other flag.
C10_FlagsFrame ==
    /\ FlagsOf(checked) = AllFalse
    /\ [][ \A i \in Missions :
              FlagsOf(checked')[i] # FlagsOf(checked)[i] =>
                 /\ year_range' = year_range
                 /\ window' = window
                 /\ show_trend' = show_trend
                 /\ \A j \in Missions \ {i} :
                       FlagsOf(checked')[j] = FlagsOf(checked)[j] ]_vars

C10_Witness ==
    /\ status = "ok"
    /\ checked # <<>>
    /\ Done(checked) = 2
    /\ window # DefaultWindow
    /\ ~show_trend
====
